---- MODULE Spec2Model ----
(***************************************************************************)
(* Model of nps_parks_collector.py: main() runs a linear pipeline          *)
(*   validate configuration -> authenticate_google -> fetch_parks_data     *)
(*   -> parse_parks_data -> create_dataframe -> write_to_google_sheet.     *)
(* The outside world (Colab auth, the NPS HTTP endpoint, the spreadsheet   *)
(* service) is the nondeterministic part: each external call either        *)
(* succeeds or raises, and a successful GET returns some JSON body.        *)
(* `calls` records every external call in order, `out` every print.        *)
(***************************************************************************)
EXTENDS Integers, Sequences, FiniteSets, TLC

VARIABLES API_KEY, SHEET_URL, pc, fault, gc, api_response, parks_list, df,
          success, calls, out, sheet

vars == <<API_KEY, SHEET_URL, pc, fault, gc, api_response, parks_list, df,
          success, calls, out, sheet>>

-----------------------------------------------------------------------------
(* Bounds *)

\* longest `data` array the NPS endpoint returns in the model
MaxParks == 2

-----------------------------------------------------------------------------
(* JSON / Python values.  Every value is a record of the same shape so     *)
(* that values of different Python types can be compared.                  *)

JStr(s) == [t |-> "str", s |-> s, n |-> 0]
JInt(n) == [t |-> "int", s |-> "", n |-> n]
\* what pandas stores in a cell whose record has no such key
NaN == [t |-> "nan", s |-> "", n |-> 0]

\* the default of every park.get(..., "N/A")
Placeholder == JStr("N/A")

\* the keys of park_info, in the order the dict literal lists them
Fields == <<"fullName", "states", "description", "acres", "designation">>

FieldSet == {Fields[j] : j \in 1..Len(Fields)}

\* the configuration as the repository ships it
API_KEY_DEFAULT == "YOUR_API_KEY_HERE"
SHEET_URL_DEFAULT == "YOUR_GOOGLE_SHEET_URL_HERE"

-----------------------------------------------------------------------------
(* The inputs: elements of the `data` array and whole JSON bodies.         *)

\* an element of `data`: a JSON object (isMap, with its members m) or some
\* other JSON value (a string), on which .get does not exist
Mapping(m) == [isMap |-> TRUE, m |-> m]
NonMapping == [isMap |-> FALSE, m |-> [k \in {} |-> Placeholder]]

SampleVal(k) ==
    CASE k = "fullName"    -> JStr("Yellowstone")
      [] k = "states"      -> JStr("ID,MT,WY")
      [] k = "description" -> JStr("...")
      [] k = "acres"       -> JInt(2219791)
      [] k = "designation" -> JStr("National Park")
      [] OTHER             -> JStr("https://www.nps.gov/yell")

\* one record for every subset of the five source fields
SubsetParks == {Mapping([k \in K |-> SampleVal(k)]) : K \in SUBSET FieldSet}

Yellowstone == Mapping([k \in FieldSet \cup {"url"} |-> SampleVal(k)])
TestPark == Mapping([k \in {"fullName"} |-> JStr("Test Park")])
EmptyPark == Mapping([k \in {} |-> Placeholder])
AcresText ==
    Mapping([k \in {"states", "acres", "url"} |->
                IF k = "states" THEN JStr("CA")
                ELSE IF k = "acres" THEN JStr("1,000") ELSE JStr("https://x")])

SampleParks == {Yellowstone, TestPark, EmptyPark, AcresText, NonMapping}

SeqUpTo(S, n) == UNION {[1..k -> S] : k \in 0..n}

\* what fetch_parks_data can hand to main: Python None (also the decoding of
\* the JSON body `null`) or a JSON object, which may have a "data" member
\* (a list, or null) and may have other members ("total", "limit", ...)
None == [kind |-> "None", hasData |-> FALSE, hasOther |-> FALSE,
         dataIsList |-> FALSE, items |-> <<>>]
Object(hasData, hasOther, dataIsList, items) ==
    [kind |-> "object", hasData |-> hasData, hasOther |-> hasOther,
     dataIsList |-> dataIsList, items |-> items]

BodiesOver(lists) ==
    {None}
    \cup {Object(FALSE, o, FALSE, <<>>) : o \in BOOLEAN}
    \cup {Object(TRUE, o, FALSE, <<>>) : o \in BOOLEAN}
    \cup {Object(TRUE, o, TRUE, l) : o \in BOOLEAN, l \in lists}

\* the bodies of the pipeline runs
Bodies ==
    BodiesOver(SeqUpTo(SampleParks, MaxParks) \cup {<<p>> : p \in SubsetParks})

\* the bodies parse_parks_data is applied to on its own
ParseBodies == BodiesOver(SeqUpTo(SubsetParks \cup SampleParks, MaxParks))

-----------------------------------------------------------------------------
(* Python values of the pipeline's locals.                                 *)

\* parks_list: None or a list of park_info dicts; a dict is the sequence of
\* its items <<[k, v], ...>> in insertion order
NoList == [none |-> TRUE, list |-> <<>>]
SomeList(l) == [none |-> FALSE, list |-> l]

\* df: None or a DataFrame: the column labels and, per column, its values
NoFrame == [none |-> TRUE, columns |-> <<>>, data |-> <<>>, rows |-> 0]
Frame(columns, data, rows) ==
    [none |-> FALSE, columns |-> columns, data |-> data, rows |-> rows]

Call(op, res, arg) == [op |-> op, res |-> res, arg |-> arg]

SinkOps == <<"open_by_url", "get_worksheet", "clear", "update">>

EmptySheet == <<>>
OldSheet == <<<<JStr("old header")>>, <<JStr("old row")>>>>

-----------------------------------------------------------------------------
(* Python helpers.                                                         *)

\* `not api_response`: None and the empty dict {} are falsy
NotResponse(r) == r.kind = "None" \/ (~r.hasData /\ ~r.hasOther)

\* `"data" not in api_response`
DataNotIn(r) == ~r.hasData

\* fault injection: `parks_list is None` in place of `not parks_list`
NotParksList_isNone(pl) == pl.none

\* `not parks_list`: None and the empty list are falsy
NotParksList(pl) == pl.none \/ pl.list = <<>>

\* park.get(key, default)
Get(park, key, default) ==
    IF key \in DOMAIN park.m THEN park.m[key] ELSE default

\* d[key] and `key in d` on a dict kept as its item sequence
DictHas(d, key) == \E j \in 1..Len(d) : d[j].k = key
DictGet(d, key) == d[CHOOSE j \in 1..Len(d) : d[j].k = key].v

-----------------------------------------------------------------------------
(* main's configuration check: the message of the first placeholder still  *)
(* in place, "" when both values were filled in.                           *)

\* fault injection: only the API key is checked
ConfigError_keyOnly(key, url) ==
    IF key = API_KEY_DEFAULT THEN "error_api_key" ELSE ""

ConfigError(key, url) ==
    IF key = API_KEY_DEFAULT THEN "error_api_key"
    ELSE IF url = SHEET_URL_DEFAULT THEN "error_sheet_url"
    ELSE ""

-----------------------------------------------------------------------------
(* authenticate_google: three calls in a row, no try/except around them.   *)
(* auth.authenticate_user() and google.auth.default() report a failure by  *)
(* raising; gspread.authorize builds the client object.                    *)

AuthOutcomes == {"ok", "authenticate_user_raises", "default_raises"}

authenticate_google(o) ==
    CASE o = "authenticate_user_raises" ->
            [raised |-> TRUE, gc |-> "unset",
             calls |-> <<Call("authenticate_user", "raised", <<>>)>>,
             out |-> <<"authenticating">>]
      [] o = "default_raises" ->
            [raised |-> TRUE, gc |-> "unset",
             calls |-> <<Call("authenticate_user", "ok", <<>>),
                         Call("default", "raised", <<>>)>>,
             out |-> <<"authenticating">>]
      [] OTHER ->
            [raised |-> FALSE, gc |-> "client",
             calls |-> <<Call("authenticate_user", "ok", <<>>),
                         Call("default", "ok", <<>>),
                         Call("authorize", "ok", <<>>)>>,
             out |-> <<"authenticating", "auth_ok">>]

-----------------------------------------------------------------------------
(* fetch_parks_data: one requests.get inside try/except RequestException.  *)
(*   network_error: requests.get raises ConnectionError/Timeout            *)
(*   http_error:    raise_for_status raises HTTPError                      *)
(*   bad_json:      response.json() raises requests' JSONDecodeError,      *)
(*                  a RequestException (requests >= 2.27), after the       *)
(*                  success line was printed                               *)

FetchOutcomes == {"ok", "http_error", "network_error", "bad_json"}

\* fault injection: the except branch returns None without printing
fetch_parks_data_silent(o, body) ==
    LET get == <<Call("GET", o, <<>>)>> IN
    CASE o = "ok" ->
            [ret |-> body, calls |-> get, out |-> <<"fetching", "api_ok">>]
      [] o = "bad_json" ->
            [ret |-> None, calls |-> get, out |-> <<"fetching", "api_ok">>]
      [] OTHER ->
            [ret |-> None, calls |-> get, out |-> <<"fetching">>]

\* fault injection: a failed request is sent a second time
fetch_parks_data_retry(o, body) ==
    LET get == <<Call("GET", o, <<>>)>> IN
    CASE o = "ok" ->
            [ret |-> body, calls |-> get, out |-> <<"fetching", "api_ok">>]
      [] o = "bad_json" ->
            [ret |-> None, calls |-> get \o get,
             out |-> <<"fetching", "api_ok", "fetch_error">>]
      [] OTHER ->
            [ret |-> None, calls |-> get \o get,
             out |-> <<"fetching", "fetch_error">>]

fetch_parks_data(o, body) ==
    LET get == <<Call("GET", o, <<>>)>> IN
    CASE o = "ok" ->
            [ret |-> body, calls |-> get, out |-> <<"fetching", "api_ok">>]
      [] o = "bad_json" ->
            [ret |-> None, calls |-> get,
             out |-> <<"fetching", "api_ok", "fetch_error">>]
      [] OTHER ->
            [ret |-> None, calls |-> get,
             out |-> <<"fetching", "fetch_error">>]

-----------------------------------------------------------------------------
(* parse_parks_data                                                        *)

\* fault injection: a missing acres defaults to the number 0
park_info_zeroAcres(park) ==
    << [k |-> "fullName",    v |-> Get(park, "fullName", Placeholder)],
       [k |-> "states",      v |-> Get(park, "states", Placeholder)],
       [k |-> "description", v |-> Get(park, "description", Placeholder)],
       [k |-> "acres",       v |-> Get(park, "acres", JInt(0))],
       [k |-> "designation", v |-> Get(park, "designation", Placeholder)] >>

park_info(park) ==
    << [k |-> "fullName",    v |-> Get(park, "fullName", Placeholder)],
       [k |-> "states",      v |-> Get(park, "states", Placeholder)],
       [k |-> "description", v |-> Get(park, "description", Placeholder)],
       [k |-> "acres",       v |-> Get(park, "acres", Placeholder)],
       [k |-> "designation", v |-> Get(park, "designation", Placeholder)] >>

\* the for loop: parks_list.append(park_info) for each park, from index i on
RECURSIVE ParksLoop(_, _, _)
ParksLoop(parks_data, i, acc) ==
    IF i > Len(parks_data) THEN acc
    ELSE ParksLoop(parks_data, i + 1, Append(acc, park_info(parks_data[i])))

\* fault injection: api_response.get("data", [{}]) in place of the
\* `"data" not in api_response` check
parse_parks_data_defaultData(r) ==
    IF NotResponse(r)
    THEN [raised |-> "", ret |-> NoList, out |-> <<"parsing", "no_data">>]
    ELSE IF DataNotIn(r)
    THEN [raised |-> "", ret |-> SomeList(ParksLoop(<<EmptyPark>>, 1, <<>>)),
          out |-> <<"parsing", "parsed">>]
    ELSE IF ~r.dataIsList
    THEN [raised |-> "TypeError", ret |-> NoList, out |-> <<"parsing">>]
    ELSE IF \E i \in 1..Len(r.items) : ~r.items[i].isMap
    THEN [raised |-> "AttributeError", ret |-> NoList, out |-> <<"parsing">>]
    ELSE [raised |-> "", ret |-> SomeList(ParksLoop(r.items, 1, <<>>)),
          out |-> <<"parsing", "parsed">>]

parse_parks_data(r) ==
    IF NotResponse(r) \/ DataNotIn(r)
    THEN [raised |-> "", ret |-> NoList, out |-> <<"parsing", "no_data">>]
    ELSE IF ~r.dataIsList
    THEN \* `for park in None`
         [raised |-> "TypeError", ret |-> NoList, out |-> <<"parsing">>]
    ELSE IF \E i \in 1..Len(r.items) : ~r.items[i].isMap
    THEN \* park.get on a value that is no dict
         [raised |-> "AttributeError", ret |-> NoList, out |-> <<"parsing">>]
    ELSE [raised |-> "", ret |-> SomeList(ParksLoop(r.items, 1, <<>>)),
          out |-> <<"parsing", "parsed">>]

-----------------------------------------------------------------------------
(* create_dataframe and the grid built from the DataFrame                  *)

\* the column labels pd.DataFrame gives a list of dicts: the keys in order
\* of first appearance
RECURSIVE AddKeys(_, _, _)
AddKeys(cols, d, j) ==
    IF j > Len(d) THEN cols
    ELSE AddKeys(IF \E c \in 1..Len(cols) : cols[c] = d[j].k
                 THEN cols ELSE Append(cols, d[j].k), d, j + 1)

RECURSIVE UnionKeys(_, _, _)
UnionKeys(cols, l, i) ==
    IF i > Len(l) THEN cols ELSE UnionKeys(AddKeys(cols, l[i], 1), l, i + 1)

\* pd.DataFrame(parks_list): one column per label, one entry per dict, NaN
\* where a dict lacks the label
DataFrame(l) ==
    LET columns == UnionKeys(<<>>, l, 1) IN
    Frame(columns,
          [c \in 1..Len(columns) |->
              [i \in 1..Len(l) |->
                  IF DictHas(l[i], columns[c]) THEN DictGet(l[i], columns[c])
                  ELSE NaN]],
          Len(l))

create_dataframe(pl) ==
    IF NotParksList(pl)
    THEN [ret |-> NoFrame, out |-> <<"creating_df", "no_parks">>]
    ELSE [ret |-> DataFrame(pl.list), out |-> <<"creating_df", "df_created">>]

\* df.columns.values.tolist()
ColumnsToList(frame) == [c \in 1..Len(frame.columns) |-> JStr(frame.columns[c])]

\* df.values.tolist(): the rows, each in column order
ValuesToList(frame) ==
    [i \in 1..frame.rows |-> [c \in 1..Len(frame.columns) |-> frame.data[c][i]]]

\* fault injection: only df.values.tolist() is written
Grid_noHeader(frame) == ValuesToList(frame)

\* [df.columns.values.tolist()] + df.values.tolist()
Grid(frame) == <<ColumnsToList(frame)>> \o ValuesToList(frame)

-----------------------------------------------------------------------------
(* write_to_google_sheet: the except branch                                *)

\* fault injection: the except branch returns True
WriteFailed_returnsTrue ==
    [out |-> <<"write_error">>, success |-> "True", pc |-> "finish"]

WriteFailed == [out |-> <<"write_error">>, success |-> "False", pc |-> "finish"]

\* fault injection: clear() leaves the cells as they were
Cleared_noop(contents) == contents

\* the tab's contents after worksheet.clear() went through
Cleared(contents) == EmptySheet

-----------------------------------------------------------------------------
(* main, one action per stage.  pc is main's position; "done" is main      *)
(* having returned, "crashed" an exception having left main.               *)

Init ==
    /\ API_KEY \in {API_KEY_DEFAULT, "nps-key"}
    /\ SHEET_URL \in {SHEET_URL_DEFAULT, "https://docs.google.com/s/1"}
    /\ pc = "start"
    /\ fault = ""
    /\ gc = "unset"
    /\ api_response = None
    /\ parks_list = NoList
    /\ df = NoFrame
    /\ success = "unset"
    /\ calls = <<>>
    /\ out = <<>>
    /\ sheet \in {EmptySheet, OldSheet}

\* the banner and the two placeholder checks
MainValidate ==
    /\ pc = "start"
    /\ LET e == ConfigError(API_KEY, SHEET_URL) IN
       /\ out' = out \o <<"=", "title", "=">> \o (IF e = "" THEN <<>> ELSE <<e>>)
       /\ pc' = (IF e = "" THEN "auth" ELSE "done")
    /\ UNCHANGED <<API_KEY, SHEET_URL, fault, gc, api_response, parks_list,
                   df, success, calls, sheet>>

\* Step 1: gc = authenticate_google(); if not gc: return
MainAuthenticate ==
    /\ pc = "auth"
    /\ \E o \in AuthOutcomes :
         LET r == authenticate_google(o) IN
         /\ calls' = calls \o r.calls
         /\ out' = out \o r.out
         /\ gc' = r.gc
         /\ IF r.raised
            THEN pc' = "crashed" /\ fault' = "authentication"
            ELSE pc' = (IF r.gc = "client" THEN "fetch" ELSE "done")
                 /\ fault' = fault
    /\ UNCHANGED <<API_KEY, SHEET_URL, api_response, parks_list, df, success,
                   sheet>>

\* Step 2: api_response = fetch_parks_data(API_KEY, limit=50);
\*         if not api_response: return
MainFetch ==
    /\ pc = "fetch"
    /\ \E o \in FetchOutcomes :
         \E body \in (IF o = "ok" THEN Bodies ELSE {None}) :
           LET r == fetch_parks_data(o, body) IN
           /\ calls' = calls \o r.calls
           /\ out' = out \o r.out
           /\ api_response' = r.ret
           /\ pc' = (IF NotResponse(r.ret) THEN "done" ELSE "parse")
    /\ UNCHANGED <<API_KEY, SHEET_URL, fault, gc, parks_list, df, success,
                   sheet>>

\* Step 3: parks_list = parse_parks_data(api_response);
\*         if not parks_list: return
MainParse ==
    /\ pc = "parse"
    /\ LET r == parse_parks_data(api_response) IN
       /\ out' = out \o r.out
       /\ IF r.raised # ""
          THEN /\ pc' = "crashed"
               /\ fault' = r.raised
               /\ parks_list' = parks_list
          ELSE /\ parks_list' = r.ret
               /\ pc' = (IF NotParksList(r.ret) THEN "done" ELSE "df")
               /\ fault' = fault
    /\ UNCHANGED <<API_KEY, SHEET_URL, gc, api_response, df, success, calls,
                   sheet>>

\* Step 4: df = create_dataframe(parks_list); if df is None: return
MainCreate ==
    /\ pc = "df"
    /\ LET r == create_dataframe(parks_list) IN
       /\ out' = out \o r.out
       /\ df' = r.ret
       /\ pc' = (IF r.ret.none THEN "done" ELSE "open")
    /\ UNCHANGED <<API_KEY, SHEET_URL, fault, gc, api_response, parks_list,
                   success, calls, sheet>>

\* Step 5, write_to_google_sheet: sheet = gc.open_by_url(sheet_url)
SinkOpen ==
    /\ pc = "open"
    /\ \E ok \in BOOLEAN :
         IF ok
         THEN /\ calls' = Append(calls, Call("open_by_url", "ok", <<>>))
              /\ out' = Append(out, "writing")
              /\ pc' = "worksheet"
              /\ success' = success
         ELSE /\ calls' = Append(calls, Call("open_by_url", "raised", <<>>))
              /\ out' = Append(out, "writing") \o WriteFailed.out
              /\ pc' = WriteFailed.pc
              /\ success' = WriteFailed.success
    /\ UNCHANGED <<API_KEY, SHEET_URL, fault, gc, api_response, parks_list,
                   df, sheet>>

\* worksheet = sheet.get_worksheet(0)
SinkGetWorksheet ==
    /\ pc = "worksheet"
    /\ \E ok \in BOOLEAN :
         IF ok
         THEN /\ calls' = Append(calls, Call("get_worksheet", "ok", <<>>))
              /\ pc' = "clear"
              /\ UNCHANGED <<out, success>>
         ELSE /\ calls' = Append(calls, Call("get_worksheet", "raised", <<>>))
              /\ out' = out \o WriteFailed.out
              /\ pc' = WriteFailed.pc
              /\ success' = WriteFailed.success
    /\ UNCHANGED <<API_KEY, SHEET_URL, fault, gc, api_response, parks_list,
                   df, sheet>>

\* worksheet.clear()
SinkClear ==
    /\ pc = "clear"
    /\ \E ok \in BOOLEAN :
         IF ok
         THEN /\ calls' = Append(calls, Call("clear", "ok", <<>>))
              /\ sheet' = Cleared(sheet)
              /\ pc' = "update"
              /\ UNCHANGED <<out, success>>
         ELSE /\ calls' = Append(calls, Call("clear", "raised", <<>>))
              /\ sheet' = sheet
              /\ out' = out \o WriteFailed.out
              /\ pc' = WriteFailed.pc
              /\ success' = WriteFailed.success
    /\ UNCHANGED <<API_KEY, SHEET_URL, fault, gc, api_response, parks_list, df>>

\* worksheet.update(grid), the two success prints and return True
SinkUpdate ==
    /\ pc = "update"
    /\ \E ok \in BOOLEAN :
         IF ok
         THEN /\ calls' = Append(calls, Call("update", "ok", Grid(df)))
              /\ sheet' = Grid(df)
              /\ out' = out \o <<"wrote", "view">>
              /\ pc' = "finish"
              /\ success' = "True"
         ELSE /\ calls' = Append(calls, Call("update", "raised", Grid(df)))
              /\ sheet' = sheet
              /\ out' = out \o WriteFailed.out
              /\ pc' = WriteFailed.pc
              /\ success' = WriteFailed.success
    /\ UNCHANGED <<API_KEY, SHEET_URL, fault, gc, api_response, parks_list, df>>

\* the closing banner of main
MainFinish ==
    /\ pc = "finish"
    /\ out' = out \o (IF success = "True" THEN <<"=", "all_done", "=">>
                      ELSE <<"=", "completed_with_errors", "=">>)
    /\ pc' = "done"
    /\ UNCHANGED <<API_KEY, SHEET_URL, fault, gc, api_response, parks_list,
                   df, success, calls, sheet>>

Next ==
    \/ MainValidate
    \/ MainAuthenticate
    \/ MainFetch
    \/ MainParse
    \/ MainCreate
    \/ SinkOpen
    \/ SinkGetWorksheet
    \/ SinkClear
    \/ SinkUpdate
    \/ MainFinish

Spec == Init /\ [][Next]_vars

-----------------------------------------------------------------------------
(* parse_parks_data on its own: main just after a successful fetch, with   *)
(* any body of ParseBodies that main passes on to the parser.              *)

InitParse ==
    /\ API_KEY = "nps-key"
    /\ SHEET_URL = "https://docs.google.com/s/1"
    /\ pc = "parse"
    /\ fault = ""
    /\ gc = "client"
    /\ api_response \in {b \in ParseBodies : ~NotResponse(b)}
    /\ parks_list = NoList
    /\ df = NoFrame
    /\ success = "unset"
    /\ calls = authenticate_google("ok").calls
                 \o fetch_parks_data("ok", api_response).calls
    /\ out = <<"=", "title", "=">> \o authenticate_google("ok").out
                 \o fetch_parks_data("ok", api_response).out
    /\ sheet = OldSheet

NextParse == MainParse

SpecParse == InitParse /\ [][NextParse]_vars

-----------------------------------------------------------------------------
(* Vocabulary of the properties.                                           *)

SinkOpSet == {SinkOps[i] : i \in 1..Len(SinkOps)}

CallsOf(op) == SelectSeq(calls, LAMBDA c : c.op = op)
SinkCalls == SelectSeq(calls, LAMBDA c : c.op \in SinkOpSet)
SinkOpSeq == [i \in 1..Len(SinkCalls) |-> SinkCalls[i].op]

Called(op, res) == \E c \in 1..Len(calls) : calls[c].op = op /\ calls[c].res = res
Said(m) == \E i \in 1..Len(out) : out[i] = m

Fetched == CallsOf("GET") # <<>>

\* the fetch handed main a body whose `data` is the empty array
EmptyData ==
    /\ Fetched
    /\ api_response.kind = "object"
    /\ api_response.hasData
    /\ api_response.dataIsList
    /\ api_response.items = <<>>

HeaderRow ==
    <<JStr("fullName"), JStr("states"), JStr("description"), JStr("acres"),
      JStr("designation")>>

-----------------------------------------------------------------------------
(* Properties *)

\* C1: once the fetch has returned None, the empty object or an object
\* without a `data` key, main never gets past the parse stage and none of
\* open_by_url, get_worksheet, clear, update is ever called in the run.
C1_NoSinkWithoutData ==
    (Fetched /\ (api_response.kind = "None" \/ ~api_response.hasData))
        => /\ SinkCalls = <<>>
           /\ pc \in {"parse", "done"}

C1_Witness ==
    /\ pc = "done"
    /\ Fetched
    /\ api_response.kind = "object"
    /\ ~api_response.hasData
    /\ Said("no_data")

\* C2: for a body whose `data` holds N mappings, parse_parks_data returns N
\* dicts in the order of `data`; each has exactly the five fields, a field
\* present in data[i] keeps its source value and an absent one is "N/A".
C2_ParseProjectsFiveFields ==
    (/\ pc # "parse"
     /\ api_response.hasData
     /\ api_response.dataIsList
     /\ \A i \in 1..Len(api_response.items) : api_response.items[i].isMap)
        => /\ fault = ""
           /\ ~parks_list.none
           /\ Len(parks_list.list) = Len(api_response.items)
           /\ \A i \in 1..Len(api_response.items) :
                LET d == parks_list.list[i]
                    src == api_response.items[i].m
                IN /\ Len(d) = Len(Fields)
                   /\ {d[j].k : j \in 1..Len(d)} = FieldSet
                   /\ \A f \in FieldSet :
                        DictGet(d, f) =
                            IF f \in DOMAIN src THEN src[f] ELSE JStr("N/A")

C2_Witness ==
    /\ pc # "parse"
    /\ api_response.items = <<TestPark, Yellowstone>>
    /\ Len(parks_list.list) = 2
    /\ DictGet(parks_list.list[1], "fullName") = JStr("Test Park")
    /\ DictGet(parks_list.list[1], "acres") = JStr("N/A")
    /\ DictGet(parks_list.list[2], "acres") = JInt(2219791)

\* C3: every grid passed to worksheet.update starts with the header row
\* fullName, states, description, acres, designation and continues with one
\* row per parsed record, in parse order, the row's j-th cell being the
\* record's value of the j-th header field.
C3_GridIsHeaderPlusRows ==
    \A c \in 1..Len(calls) :
        calls[c].op = "update" =>
            LET g == calls[c].arg
                l == parks_list.list
            IN /\ Len(g) = Len(l) + 1
               /\ g[1] = HeaderRow
               /\ \A i \in 1..Len(l) :
                    /\ Len(g[i + 1]) = Len(HeaderRow)
                    /\ \A j \in 1..Len(HeaderRow) :
                         g[i + 1][j] = DictGet(l[i], HeaderRow[j].s)

C3_Witness ==
    \E c \in 1..Len(calls) :
        /\ calls[c].op = "update"
        /\ Len(calls[c].arg) = 3
        /\ calls[c].arg[2] = <<JStr("N/A"), JStr("CA"), JStr("N/A"),
                               JStr("1,000"), JStr("N/A")>>
        /\ calls[c].arg[3] = <<JStr("Yellowstone"), JStr("ID,MT,WY"),
                               JStr("..."), JInt(2219791),
                               JStr("National Park")>>

\* C4: after a GET that failed with a non-2xx status or a network error the
\* fetch error has been printed, main has returned, and no spreadsheet call
\* is ever made.
C4_FailedFetchNoSink ==
    (Called("GET", "http_error") \/ Called("GET", "network_error"))
        => /\ Said("fetch_error")
           /\ SinkCalls = <<>>
           /\ pc = "done"

C4_Witness ==
    /\ Called("GET", "http_error")
    /\ pc = "done"
    /\ Said("fetch_error")

\* C5: a run issues at most one GET; when that GET ends in a non-2xx status,
\* a network error or an undecodable body, fetch_parks_data has printed the
\* error and returned None (main has returned, nothing was raised).
C5_OneGetThenNone ==
    /\ Len(CallsOf("GET")) <= 1
    /\ \A o \in {"http_error", "network_error", "bad_json"} :
         Called("GET", o)
            => /\ Len(CallsOf("GET")) = 1
               /\ Said("fetch_error")
               /\ api_response = None
               /\ fault = ""
               /\ pc = "done"

C5_Witness ==
    /\ Called("GET", "bad_json")
    /\ Len(CallsOf("GET")) = 1
    /\ api_response = None
    /\ pc = "done"

\* C6: as soon as one of the four sink calls has raised, the write error is
\* printed and write_to_google_sheet has returned False; it has returned
\* True exactly when open_by_url, get_worksheet, clear and update all went
\* through; either way main goes on to its closing banner and returns.
C6_WriteReturnsBoolean ==
    /\ (\E op \in SinkOpSet : Called(op, "raised"))
          => /\ Said("write_error")
             /\ success = "False"
    /\ (success = "True")
          <=> /\ SinkOpSeq = SinkOps
              /\ \A i \in 1..Len(SinkCalls) : SinkCalls[i].res = "ok"
    /\ SinkCalls # <<>> => fault = "" /\ pc # "crashed"
    /\ success # "unset" => pc \in {"finish", "done"}
    /\ (pc = "done" /\ success = "True") => Said("all_done")
    /\ (pc = "done" /\ success = "False") => Said("completed_with_errors")

C6_Witness ==
    /\ pc = "done"
    /\ Called("open_by_url", "raised")
    /\ success = "False"
    /\ Said("completed_with_errors")

\* C7: with a placeholder left in API_KEY or SHEET_URL, main makes no
\* external call at all (no authentication, no GET, no spreadsheet call)
\* and returns right after printing the guidance message.
C7_PlaceholderStopsRun ==
    (API_KEY = API_KEY_DEFAULT \/ SHEET_URL = SHEET_URL_DEFAULT)
        => /\ calls = <<>>
           /\ pc \in {"start", "done"}
           /\ pc = "done" => (Said("error_api_key") \/ Said("error_sheet_url"))

C7_Witness ==
    /\ pc = "done"
    /\ API_KEY # API_KEY_DEFAULT
    /\ SHEET_URL = SHEET_URL_DEFAULT
    /\ Said("error_sheet_url")
    /\ calls = <<>>

\* C8: every run of main ends by main returning normally, never by an
\* unhandled exception, whatever kind of error occurs.
C8_NeverUnhandled == pc # "crashed"

\* C9: the sink calls of a run are a prefix of open_by_url, get_worksheet,
\* clear, update (each at most once, in that order), a call is only made
\* after all earlier ones went through, and a run whose clear went through
\* and whose update raised ends with the tab empty.
C9_SinkOrderNoRollback ==
    /\ Len(SinkCalls) <= Len(SinkOps)
    /\ SinkOpSeq = SubSeq(SinkOps, 1, Len(SinkCalls))
    /\ \A i \in 1..(Len(SinkCalls) - 1) : SinkCalls[i].res = "ok"
    /\ Called("update", "raised")
          => /\ Called("clear", "ok")
             /\ sheet = EmptySheet
             /\ sheet # OldSheet

C9_Witness ==
    /\ pc = "done"
    /\ Called("clear", "ok")
    /\ Called("update", "raised")
    /\ sheet = EmptySheet
    /\ success = "False"

\* C10: the tab changes, and clear or update is called, only in runs whose
\* parse produced at least one record; with `data` the empty array the
\* parser returns the empty list, main returns before the sink stage and
\* the tab keeps its contents.
C10_SheetTouchedOnlyWithRecords ==
    /\ []((Called("clear", "ok") \/ Called("clear", "raised")
             \/ Called("update", "ok") \/ Called("update", "raised"))
            => (~parks_list.none /\ Len(parks_list.list) >= 1))
    /\ [](EmptyData
            => /\ SinkCalls = <<>>
               /\ pc \in {"parse", "done"}
               /\ pc = "done" => parks_list = SomeList(<<>>))
    /\ [][sheet' # sheet
            => (~EmptyData /\ ~parks_list.none /\ Len(parks_list.list) >= 1)]_vars

C10_Witness ==
    /\ pc = "done"
    /\ EmptyData
    /\ parks_list = SomeList(<<>>)
    /\ Said("parsed")
    /\ sheet = OldSheet

====
